---- MODULE Spec2Model ----
(***************************************************************************)
(* A model of the sudoku-solver repository: the SudokuBoard data model     *)
(* (core/sudoku.py), the solver contract (core/solver_base.py), the four   *)
(* solving algorithms (algorithms/*.py) and the string loader              *)
(* (utils/puzzle_loader.py).                                               *)
(*                                                                         *)
(* Python objects are records; a Python list indexed 0..8 is a function    *)
(* over 0..8; a raised exception is the outcome "raise".                   *)
(***************************************************************************)
EXTENDS Integers, Sequences, FiniteSets, TLC

VARIABLES
    ub,      \* the caller's SudokuBoard object
    cb,      \* a second board object made by ub.copy() (NoBoard before)
    wb,      \* the board object a solver made with board.copy() for self.board
    ob,      \* the solver's self.original_board
    sv,      \* the solver object's scalar fields (NoSolver before construction)
    mx,      \* the DancingLinksSolver matrix (NoMatrix for the other solvers)
    last     \* the last API call: its name, arguments and outcome

vars == <<ub, cb, wb, ob, sv, mx, last>>

(***************************************************************************)
(* SudokuBoard class constants                                             *)
(***************************************************************************)
GRID_SIZE == 9
BOX_SIZE == 3
EMPTY == 0

Idx == 0 .. (GRID_SIZE - 1)
Digits == 1 .. GRID_SIZE
Cells == Idx \X Idx

\* Python's None (also the sentinel NakedSinglesSolver._find_naked_singles
\* writes to self.board.board): a value no grid equals
None == <<"None">>

BoxStart(i) == (i \div BOX_SIZE) * BOX_SIZE

(***************************************************************************)
(* Bounds of the model                                                     *)
(***************************************************************************)
\* number of cells of HoleSeq an input puzzle may blank
NumHoleCells == 4
\* largest digit an input puzzle may hold in OverrideCell instead of the base digit
MaxOverride == 3
\* largest entry a caller's grid holds (the grid constructor checks no range)
MaxGridValue == 10
\* set_value is called with the values 0..MaxApiValue and with MaxGridValue
MaxApiValue == 4
\* number of cells of ApiCellSeq a caller of the board API works on
NumApiCells == 2
\* depth of _search frames after which the interpreter raises RecursionError
RecursionLimit == 90

(***************************************************************************)
(* The solved grid of the test fixtures (tests/conftest.py)                *)
(***************************************************************************)
BaseRows ==
    << <<5,3,4,6,7,8,9,1,2>>,
       <<6,7,2,1,9,5,3,4,8>>,
       <<1,9,8,3,4,2,5,6,7>>,
       <<8,5,9,7,6,1,4,2,3>>,
       <<4,2,6,8,5,3,7,9,1>>,
       <<7,1,3,9,2,4,8,5,6>>,
       <<9,6,1,5,3,7,2,8,4>>,
       <<2,8,7,4,1,9,6,3,5>>,
       <<3,4,5,2,8,6,1,7,9>> >>

BaseGrid == [r \in Idx |-> [c \in Idx |-> BaseRows[r + 1][c + 1]]]

EmptyGrid == [r \in Idx |-> [c \in Idx |-> EMPTY]]

(***************************************************************************)
(* SudokuBoard                                                             *)
(***************************************************************************)
\* (r, c) is one of the cells the three peer loops of
\* _remove_candidates_for_value and _is_valid_placement visit for (row, col)
IsPeer(r, c, row, col) ==
    \/ r = row /\ c # col
    \/ c = col /\ r # row
    \/ /\ BoxStart(r) = BoxStart(row)
       /\ BoxStart(c) = BoxStart(col)
       /\ (r # row \/ c # col)

remove_candidates_for_value(cand, row, col, value) ==
    [r \in Idx |-> [c \in Idx |->
        IF IsPeer(r, c, row, col) THEN cand[r][c] \ {value} ELSE cand[r][c]]]

\* _initialize_candidates: every empty cell starts from 1..9, every filled cell
\* from set(); then each filled cell's value is discarded from its peers' sets
initialize_candidates(g) ==
    [r \in Idx |-> [c \in Idx |->
        IF g[r][c] = EMPTY
        THEN {d \in Digits : \A pr, pc \in Idx :
                (IsPeer(r, c, pr, pc) /\ g[pr][pc] # EMPTY) => g[pr][pc] # d}
        ELSE {}]]

\* SudokuBoard(grid): the shape is checked, the entries are not
BoardInit(grid) ==
    [board |-> grid, initial_board |-> grid, candidates |-> initialize_candidates(grid)]

is_valid_placement(g, row, col, value) ==
    \A r, c \in Idx : IsPeer(r, c, row, col) => g[r][c] # value

NoDup(vals) ==
    \A i, j \in 1 .. Len(vals) : (i # j /\ vals[i] # EMPTY) => vals[i] # vals[j]

RowVals(g, r) == [i \in 1 .. GRID_SIZE |-> g[r][i - 1]]
ColVals(g, c) == [i \in 1 .. GRID_SIZE |-> g[i - 1][c]]
BoxVals(g, br, bc) ==
    [i \in 1 .. GRID_SIZE |->
        g[br * BOX_SIZE + ((i - 1) \div BOX_SIZE)][bc * BOX_SIZE + ((i - 1) % BOX_SIZE)]]

is_valid(g) ==
    /\ \A r \in Idx : NoDup(RowVals(g, r))
    /\ \A c \in Idx : NoDup(ColVals(g, c))
    /\ \A br, bc \in 0 .. (BOX_SIZE - 1) : NoDup(BoxVals(g, br, bc))

\* is_solved() subscripts self.board: on the None sentinel it raises TypeError
is_solved(g) ==
    /\ \A r, c \in Idx : g[r][c] # EMPTY
    /\ is_valid(g)

\* get_empty_cells: the empty positions, as row-major indices 9 * r + c
get_empty_cells(g) ==
    {k \in 0 .. (GRID_SIZE * GRID_SIZE - 1) : g[k \div GRID_SIZE][k % GRID_SIZE] = EMPTY}

get_candidates(b, row, col) ==
    IF b.board[row][col] # EMPTY THEN {} ELSE b.candidates[row][col]

\* a faulty set_value that skips the _is_valid_placement test: the fault the
\* property of C6 must detect
set_value_NoPlacementCheck(b, row, col, value) ==
    IF ~(row \in Idx /\ col \in Idx) THEN <<FALSE, b>>
    ELSE IF value # EMPTY /\ ~(1 <= value /\ value <= GRID_SIZE) THEN <<FALSE, b>>
    ELSE <<TRUE, [b EXCEPT !.board[row][col] = value,
                           !.candidates[row][col] = {}]>>

\* set_value: <<returned value, board object afterwards>>
set_value(b, row, col, value) ==
    IF ~(row \in Idx /\ col \in Idx) THEN <<FALSE, b>>
    ELSE IF value # EMPTY /\ ~(1 <= value /\ value <= GRID_SIZE) THEN <<FALSE, b>>
    ELSE IF value # EMPTY /\ ~is_valid_placement(b.board, row, col, value) THEN <<FALSE, b>>
    ELSE LET g == [b.board EXCEPT ![row][col] = value]
             cand ==
                IF value = EMPTY
                THEN [b.candidates EXCEPT ![row][col] =
                        {d \in Digits : \A r, c \in Idx :
                            IsPeer(r, c, row, col) => g[r][c] # d}]
                ELSE remove_candidates_for_value(
                        [b.candidates EXCEPT ![row][col] = {}], row, col, value)
         IN  <<TRUE, [b EXCEPT !.board = g, !.candidates = cand]>>

board_copy(b) ==
    [BoardInit(b.board) EXCEPT !.initial_board = b.initial_board]

\* a faulty reset() that restores the grid and keeps the candidate sets: the
\* fault the property of C18 must detect
board_reset_KeepCandidates(b) == [b EXCEPT !.board = b.initial_board]

board_reset(b) ==
    [b EXCEPT !.board = b.initial_board,
              !.candidates = initialize_candidates(b.initial_board)]

(***************************************************************************)
(* DancingLinksSolver: the matrix                                          *)
(*                                                                         *)
(* Node objects are numbered: 1..324 are the Column.node objects in the    *)
(* order _prepare_matrix appends them to self.columns, 325 is self.header, *)
(* and the four nodes of placement (r, c, d) follow in the order _add_node *)
(* creates them.  A Column and its node share one id.                      *)
(*                                                                         *)
(* left and right are kept for the header and the column nodes, whose      *)
(* links _cover and _uncover rewrite.  The left and right of the four      *)
(* nodes of a placement are assigned once, in _prepare_matrix, and by no   *)
(* other statement: Left and Right compute them.                           *)
(***************************************************************************)
NCELLS == GRID_SIZE * GRID_SIZE
NCOLS == 4 * NCELLS
NPLACE == NCELLS * GRID_SIZE
NNODES == 1 + NCOLS + 4 * NPLACE
HEADER == NCOLS + 1
Nodes == 1 .. NNODES
Heads == 1 .. HEADER
Columns == 1 .. NCOLS

\* self.column_map[(kind, i, j)]
CellCol(r, c) == 1 + GRID_SIZE * r + c
RowCol(r, d) == 1 + NCELLS + GRID_SIZE * r + (d - 1)
ColCol(c, d) == 1 + 2 * NCELLS + GRID_SIZE * c + (d - 1)
BoxCol(b, d) == 1 + 3 * NCELLS + GRID_SIZE * b + (d - 1)

\* Column.constraint_id of column k: <<type, i, j>>
constraint_id(k) ==
    LET q == (k - 1) \div NCELLS
        i == ((k - 1) % NCELLS) \div GRID_SIZE
        j == (k - 1) % GRID_SIZE
    IN  CASE q = 0 -> <<"cell", i, j>>
          [] q = 1 -> <<"row", i, j + 1>>
          [] q = 2 -> <<"col", i, j + 1>>
          [] OTHER -> <<"box", i, j + 1>>

\* placement number of (r, c, d) and the first of its four nodes
Placement(r, c, d) == NCELLS * r + GRID_SIZE * c + (d - 1)
FirstNode(p) == HEADER + 1 + 4 * p
PlR(p) == p \div NCELLS
PlC(p) == (p % NCELLS) \div GRID_SIZE
PlD(p) == (p % GRID_SIZE) + 1

\* self.placement_rows[(r, c, d)] = nodes[0]
placement_rows(r, c, d) == FirstNode(Placement(r, c, d))

\* node.column, set once when the node is created
ColumnOf ==
    [n \in Nodes |->
        IF n = HEADER THEN HEADER
        ELSE IF n <= NCOLS THEN n
        ELSE LET p == (n - HEADER - 1) \div 4
                 k == (n - HEADER - 1) % 4
             IN  CASE k = 0 -> CellCol(PlR(p), PlC(p))
                   [] k = 1 -> RowCol(PlR(p), PlD(p))
                   [] k = 2 -> ColCol(PlC(p), PlD(p))
                   [] OTHER -> BoxCol(BoxStart(PlR(p)) + (PlC(p) \div BOX_SIZE), PlD(p))]

\* Node.__init__ and Column.__init__: every link points to the node itself
NewNodes ==
    [left |-> [n \in Heads |-> n], right |-> [n \in Heads |-> n],
     up |-> [n \in Nodes |-> n], down |-> [n \in Nodes |-> n],
     size |-> [k \in Columns |-> 0], hang |-> FALSE]

\* the four statements that append column k to the header ring
LinkColumn(m, k) ==
    LET r1 == [m.right EXCEPT ![k] = HEADER]
        l1 == [m.left EXCEPT ![k] = m.left[HEADER]]
        r2 == [r1 EXCEPT ![l1[HEADER]] = k]
        l2 == [l1 EXCEPT ![HEADER] = k]
    IN  [m EXCEPT !.left = l2, !.right = r2]

add_node(m, column, node) ==
    LET u1 == [m.up EXCEPT ![node] = m.up[column]]
        d1 == [m.down EXCEPT ![node] = column]
        d2 == [d1 EXCEPT ![u1[column]] = node]
        u2 == [u1 EXCEPT ![column] = node]
    IN  [m EXCEPT !.up = u2, !.down = d2, !.size[column] = @ + 1]

\* the body of the placement loop for placement p: four _add_node calls (the
\* horizontal links it assigns after them are Left and Right)
AddPlacement(m, p) ==
    LET n0 == FirstNode(p)
        m1 == add_node(m, ColumnOf[n0], n0)
        m2 == add_node(m1, ColumnOf[n0 + 1], n0 + 1)
        m3 == add_node(m2, ColumnOf[n0 + 2], n0 + 2)
        m4 == add_node(m3, ColumnOf[n0 + 3], n0 + 3)
    IN  m4

\* node.right and node.left: for the nodes of a placement the circular links
\* nodes[i].right = nodes[(i + 1) % 4] and nodes[i].left = nodes[i - 1]
Right(m, n) ==
    IF n \in Heads THEN m.right[n]
    ELSE IF (n - HEADER - 1) % 4 = 3 THEN n - 3 ELSE n + 1

Left(m, n) ==
    IF n \in Heads THEN m.left[n]
    ELSE IF (n - HEADER - 1) % 4 = 0 THEN n + 3 ELSE n - 1

\* for k in lo..hi, in increasing order: m = LinkColumn(m, k)
RECURSIVE LinkColumns(_, _, _)
LinkColumns(m, lo, hi) ==
    IF lo > hi THEN m
    ELSE IF lo = hi THEN LinkColumn(m, lo)
    ELSE LET mid == (lo + hi) \div 2
             m1 == LinkColumns(m, lo, mid)
         IN  IF m1.hang THEN m1 ELSE LinkColumns(m1, mid + 1, hi)

\* for p in lo..hi, in increasing order: m = AddPlacement(m, p)
RECURSIVE AddPlacements(_, _, _)
AddPlacements(m, lo, hi) ==
    IF lo > hi THEN m
    ELSE IF lo = hi THEN AddPlacement(m, lo)
    ELSE LET mid == (lo + hi) \div 2
             m1 == AddPlacements(m, lo, mid)
         IN  IF m1.hang THEN m1 ELSE AddPlacements(m1, mid + 1, hi)

prepare_matrix == AddPlacements(LinkColumns(NewNodes, 1, NCOLS), 0, NPLACE - 1)

\* the inner loop of _cover: node = cur.right; while node != cur
RECURSIVE CoverRow(_, _, _, _)
CoverRow(m, cur, node, fuel) ==
    IF node = cur THEN m
    ELSE IF fuel = 0 THEN [m EXCEPT !.hang = TRUE]
    ELSE LET u1 == [m.up EXCEPT ![m.down[node]] = m.up[node]]
             d1 == [m.down EXCEPT ![u1[node]] = m.down[node]]
             m1 == [m EXCEPT !.up = u1, !.down = d1, !.size[ColumnOf[node]] = @ - 1]
         IN  CoverRow(m1, cur, Right(m1, node), fuel - 1)

\* the outer loop of _cover: cur = column.node.down; while cur != column.node
RECURSIVE CoverRows(_, _, _, _)
CoverRows(m, column, cur, fuel) ==
    IF cur = column \/ m.hang THEN m
    ELSE IF fuel = 0 THEN [m EXCEPT !.hang = TRUE]
    ELSE LET m1 == CoverRow(m, cur, Right(m, cur), 4)
         IN  CoverRows(m1, column, m1.down[cur], fuel - 1)

cover(m, column) ==
    LET l1 == [m.left EXCEPT ![m.right[column]] = m.left[column]]
        r1 == [m.right EXCEPT ![l1[column]] = m.right[column]]
        m1 == [m EXCEPT !.left = l1, !.right = r1]
    IN  CoverRows(m1, column, m1.down[column], GRID_SIZE + 1)

\* the inner loop of _uncover: node = cur.left; while node != cur
RECURSIVE UncoverRow(_, _, _, _)
UncoverRow(m, cur, node, fuel) ==
    IF node = cur THEN m
    ELSE IF fuel = 0 THEN [m EXCEPT !.hang = TRUE]
    ELSE LET u1 == [m.up EXCEPT ![m.down[node]] = node]
             d1 == [m.down EXCEPT ![u1[node]] = node]
             m1 == [m EXCEPT !.up = u1, !.down = d1, !.size[ColumnOf[node]] = @ + 1]
         IN  UncoverRow(m1, cur, Left(m1, node), fuel - 1)

\* the outer loop of _uncover: cur = column.node.up; while cur != column.node
RECURSIVE UncoverRows(_, _, _, _)
UncoverRows(m, column, cur, fuel) ==
    IF cur = column \/ m.hang THEN m
    ELSE IF fuel = 0 THEN [m EXCEPT !.hang = TRUE]
    ELSE LET m1 == UncoverRow(m, cur, Left(m, cur), 4)
         IN  UncoverRows(m1, column, m1.up[cur], fuel - 1)

\* a faulty _uncover that restores the rows and leaves the column out of the
\* header ring: the fault the property of C19 must detect
uncover_NoRelink(m, column) == UncoverRows(m, column, m.up[column], GRID_SIZE + 1)

uncover(m, column) ==
    LET m1 == UncoverRows(m, column, m.up[column], GRID_SIZE + 1)
        l1 == [m1.left EXCEPT ![m1.right[column]] = column]
        r1 == [m1.right EXCEPT ![l1[column]] = column]
    IN  [m1 EXCEPT !.left = l1, !.right = r1]

\* one iteration of the loop of _select_column; s.node = HEADER ends the loop
SelectStep(m, s) ==
    IF s.node = HEADER THEN s
    ELSE IF m.size[ColumnOf[s.node]] < s.min_size \/ s.min_col = HEADER
         THEN [node |-> m.right[s.node], min_size |-> m.size[ColumnOf[s.node]],
               min_col |-> ColumnOf[s.node]]
         ELSE [s EXCEPT !.node = m.right[s.node]]

\* n iterations of SelectStep
RECURSIVE SelectLoop(_, _, _)
SelectLoop(m, s, n) ==
    IF n = 0 \/ s.node = HEADER THEN s
    ELSE IF n = 1 THEN SelectStep(m, s)
    ELSE LET s1 == SelectLoop(m, s, n \div 2)
         IN  IF s1.node = HEADER THEN s1 ELSE SelectLoop(m, s1, n - (n \div 2))

\* _select_column; min_col = HEADER stands for None, node # HEADER for a walk
\* of the header ring that never comes back to self.header
select_column(m) ==
    SelectLoop(m, [node |-> m.right[HEADER], min_size |-> 0, min_col |-> HEADER], NCOLS + 1)


(***************************************************************************)
(* SudokuSolver: the state of a solver object and of a running solve()     *)
(*                                                                         *)
(* solve() runs as a sequence of steps.  sv.stack holds the frames of the  *)
(* recursive calls that are in progress, sv.pc the position of the         *)
(* innermost one: "call" (a recursive function is entered), "loop" (the    *)
(* top of its loop over values or rows), "ret" (a callee has returned      *)
(* sv.retval to it), and "done" once solve() has returned or raised.       *)
(***************************************************************************)
BT == "BacktrackingSolver"
MRV == "BacktrackingMRVSolver"
NS == "NakedSinglesSolver"
DLX == "DancingLinksSolver"
Kinds == {BT, MRV, NS, DLX}

NoBoard == [board |-> None, initial_board |-> None, candidates |-> None]

NoMatrix ==
    [left |-> None, right |-> None, up |-> None, down |-> None, size |-> None,
     hang |-> FALSE]

\* what a caller can observe of a solver s whose board is b: the number of
\* solve() calls since construction or the last reset(), what the last of
\* them returned, the grid and the statistics
Outcome(s, b) ==
    [calls |-> s.calls, result |-> s.result, board |-> b.board,
     cells_assigned |-> s.cells_assigned, guesses |-> s.guesses,
     backtracks |-> s.backtracks]

NoOutcome ==
    [calls |-> 0, result |-> "none", board |-> None, cells_assigned |-> 0,
     guesses |-> 0, backtracks |-> 0]

\* prev and before are no fields of the program: prev keeps what the caller
\* observed of the solver just before the last reset(), before what it
\* observed (and the step history) just before the solve() called last
NoSolver ==
    [kind |-> "none", ref |-> "none", cells_assigned |-> 0, guesses |-> 0,
     backtracks |-> 0, step_history |-> << >>, solution |-> << >>,
     pc |-> "none", stack |-> << >>, retval |-> FALSE, changed |-> FALSE,
     result |-> "none", calls |-> 0, resets |-> 0, prev |-> NoOutcome,
     before |-> [outcome |-> NoOutcome, step_history |-> << >>]]

\* SudokuSolver.__init__ (and the fields DancingLinksSolver.__init__ adds);
\* ref names the object self.board refers to: the copy "wb", or for
\* DancingLinksSolver, which assigns self.board = board, the caller's "ub"
SolverInit(kind) ==
    [NoSolver EXCEPT !.kind = kind, !.ref = IF kind = DLX THEN "ub" ELSE "wb",
                     !.pc = "idle"]

\* the object self.board refers to
CurBoard == IF sv.ref = "ub" THEN ub ELSE wb

\* self.board is left as nb by this step
SetCurBoard(nb) ==
    IF sv.ref = "ub" THEN ub' = nb /\ wb' = wb ELSE wb' = nb /\ ub' = ub

\* a faulty _record_assignment that appends to the history and does not
\* count the assignment: the fault the property of C13 must detect
record_assignment_NoCount(s, row, col, value) ==
    [s EXCEPT !.step_history = Append(@, <<row, col, value>>)]

\* _record_assignment
record_assignment(s, row, col, value) ==
    [s EXCEPT !.step_history = Append(@, <<row, col, value>>),
              !.cells_assigned = @ + 1]

Top(stack) == stack[Len(stack)]
Pop(stack) == SubSeq(stack, 1, Len(stack) - 1)
SetTop(stack, f) == [stack EXCEPT ![Len(stack)] = f]
Min(S) == CHOOSE x \in S : \A y \in S : x <= y
Max(S) == CHOOSE x \in S : \A y \in S : x >= y

NoCell == -1
RowOf(k) == k \div GRID_SIZE
ColOfCell(k) == k % GRID_SIZE

\* a callee returns v to the frame on top of the stack (or to solve())
Return(s, v) == [s EXCEPT !.retval = v, !.pc = "ret"]

(***************************************************************************)
(* BacktrackingSolver                                                      *)
(***************************************************************************)
is_valid_move(g, row, col, value) == is_valid_placement(g, row, col, value)

\* _solve_recursive is entered: the scan for the first empty cell
BT_Call ==
    /\ sv.kind = BT /\ sv.pc = "call"
    /\ LET g == CurBoard.board
           empty_cells == get_empty_cells(g)
       IN  IF empty_cells = {}
           THEN sv' = Return(sv, is_solved(g))
           ELSE sv' = [sv EXCEPT
                    !.stack = Append(@, [row |-> RowOf(Min(empty_cells)),
                                         col |-> ColOfCell(Min(empty_cells)),
                                         value |-> 0]),
                    !.pc = "loop"]
    /\ UNCHANGED <<ub, cb, wb, ob, mx, last>>

\* for value in range(1, 10), resumed after the value tried last: the next
\* valid value is placed and the function recurses, or the loop runs out
BT_Loop ==
    /\ sv.kind = BT /\ sv.pc = "loop"
    /\ LET f == Top(sv.stack)
           g == CurBoard.board
           vs == {v \in Digits : v > f.value /\ is_valid_move(g, f.row, f.col, v)}
       IN  IF vs = {}
           THEN /\ sv' = Return([sv EXCEPT !.stack = Pop(@)], FALSE)
                /\ UNCHANGED <<ub, wb>>
           ELSE LET value == Min(vs)
                    s1 == record_assignment(sv, f.row, f.col, value)
                IN  /\ SetCurBoard([CurBoard EXCEPT !.board[f.row][f.col] = value])
                    /\ sv' = [s1 EXCEPT !.guesses = @ + 1,
                                        !.stack = SetTop(@, [f EXCEPT !.value = value]),
                                        !.pc = "call"]
    /\ UNCHANGED <<cb, ob, mx, last>>

\* BT_Backtrack without "self.backtracks += 1"
BT_Backtrack_NoCount ==
    /\ sv.kind = BT /\ sv.pc = "ret" /\ sv.stack # << >> /\ ~sv.retval
    /\ LET f == Top(sv.stack)
       IN  /\ SetCurBoard([CurBoard EXCEPT !.board[f.row][f.col] = 0])
           /\ sv' = [sv EXCEPT !.pc = "loop"]
    /\ UNCHANGED <<cb, ob, mx, last>>

\* the recursive call returned False: backtrack and go on with the loop
BT_Backtrack ==
    /\ sv.kind = BT /\ sv.pc = "ret" /\ sv.stack # << >> /\ ~sv.retval
    /\ LET f == Top(sv.stack)
       IN  /\ SetCurBoard([CurBoard EXCEPT !.board[f.row][f.col] = 0])
           /\ sv' = [sv EXCEPT !.backtracks = @ + 1, !.pc = "loop"]
    /\ UNCHANGED <<cb, ob, mx, last>>

(***************************************************************************)
(* BacktrackingMRVSolver                                                   *)
(***************************************************************************)
\* a faulty _select_best_cell that takes the first empty cell whatever its
\* candidates: the fault the property of C24 must detect
select_best_cell_FirstEmpty(b) ==
    IF get_empty_cells(b.board) = {} THEN NoCell ELSE Min(get_empty_cells(b.board))

\* _select_best_cell: the row-major index of the first empty cell with the
\* fewest candidates (fewer than 10), or NoCell for None
select_best_cell(b) ==
    LET cs == {k \in get_empty_cells(b.board) :
                    Cardinality(b.candidates[RowOf(k)][ColOfCell(k)]) < 10}
        n(k) == Cardinality(b.candidates[RowOf(k)][ColOfCell(k)])
    IN  IF cs = {} THEN NoCell
        ELSE CHOOSE k \in cs : \A j \in cs : n(k) < n(j) \/ (n(k) = n(j) /\ k <= j)

\* the grid and the candidate sets as a call of _solve_recursive finds them;
\* every frame keeps them as f.entry, which no statement of the solver reads
BoardEntry == [board |-> CurBoard.board, candidates |-> CurBoard.candidates]

\* _solve_recursive is entered, up to its loop over the candidates
MRV_Call ==
    /\ sv.kind = MRV /\ sv.pc = "call"
    /\ LET b == CurBoard
           cell == select_best_cell(b)
       IN  IF is_solved(b.board) THEN sv' = Return(sv, TRUE)
           ELSE IF cell = NoCell THEN sv' = Return(sv, FALSE)
           ELSE LET candidates == get_candidates(b, RowOf(cell), ColOfCell(cell))
                IN  IF candidates = {} THEN sv' = Return(sv, FALSE)
                    ELSE sv' = [sv EXCEPT
                            !.stack = Append(@, [row |-> RowOf(cell),
                                                 col |-> ColOfCell(cell),
                                                 candidates |-> candidates,
                                                 value |-> 0,
                                                 old_candidates |-> None,
                                                 entry |-> BoardEntry]),
                            !.pc = "loop"]
    /\ UNCHANGED <<ub, cb, wb, ob, mx, last>>

\* for value in sorted(candidates), resumed after the value tried last
MRV_Loop ==
    /\ sv.kind = MRV /\ sv.pc = "loop"
    /\ LET f == Top(sv.stack)
           b == CurBoard
           vs == {v \in f.candidates : v > f.value}
       IN  IF vs = {}
           THEN /\ sv' = Return([sv EXCEPT !.stack = Pop(@)], FALSE)
                /\ UNCHANGED <<ub, wb>>
           ELSE LET value == Min(vs)
                    s1 == record_assignment(sv, f.row, f.col, value)
                    cand == remove_candidates_for_value(
                                [b.candidates EXCEPT ![f.row][f.col] = {}],
                                f.row, f.col, value)
                IN  /\ SetCurBoard([b EXCEPT !.board[f.row][f.col] = value,
                                             !.candidates = cand])
                    /\ sv' = [s1 EXCEPT
                            !.guesses = @ + 1,
                            !.stack = SetTop(@, [f EXCEPT !.value = value,
                                                    !.old_candidates = b.candidates]),
                            !.pc = "call"]
    /\ UNCHANGED <<cb, ob, mx, last>>

\* a faulty backtrack that empties the cell and keeps the reduced candidate
\* sets: the fault the property of C23 must detect
MRV_Backtrack_KeepCandidates ==
    /\ sv.kind = MRV /\ sv.pc = "ret" /\ sv.stack # << >> /\ ~sv.retval
    /\ LET f == Top(sv.stack)
       IN  /\ SetCurBoard([CurBoard EXCEPT !.board[f.row][f.col] = 0])
           /\ sv' = [sv EXCEPT !.backtracks = @ + 1, !.pc = "loop"]
    /\ UNCHANGED <<cb, ob, mx, last>>

\* the recursive call returned False: the cell is emptied and the candidate
\* sets saved before the trial are put back
MRV_Backtrack ==
    /\ sv.kind = MRV /\ sv.pc = "ret" /\ sv.stack # << >> /\ ~sv.retval
    /\ LET f == Top(sv.stack)
       IN  /\ SetCurBoard([CurBoard EXCEPT !.board[f.row][f.col] = 0,
                                           !.candidates = f.old_candidates])
           /\ sv' = [sv EXCEPT !.backtracks = @ + 1, !.pc = "loop"]
    /\ UNCHANGED <<cb, ob, mx, last>>


(***************************************************************************)
(* NakedSinglesSolver                                                      *)
(***************************************************************************)
\* NakedSinglesSolver._initialize_candidates
ns_initialize_candidates(g) ==
    [r \in Idx |-> [c \in Idx |->
        IF g[r][c] = 0
        THEN {d \in 1 .. 9 :
                /\ \A col \in Idx : g[r][col] # d
                /\ \A row \in Idx : g[row][c] # d
                /\ \A row \in BoxStart(r) .. (BoxStart(r) + 2) :
                   \A col \in BoxStart(c) .. (BoxStart(c) + 2) : g[row][col] # d}
        ELSE {}]]

\* a faulty _find_naked_singles that reports no single: the fault the
\* property of C25 must detect
find_naked_singles_Blind(b) == <<{}, b.board>>

\* _find_naked_singles: <<the list returned (row-major indices), self.board.board
\* afterwards>>; an empty cell without candidates overwrites the grid with None
find_naked_singles(b) ==
    LET empty == get_empty_cells(b.board)
        n(k) == Cardinality(b.candidates[RowOf(k)][ColOfCell(k)])
    IN  IF \E k \in empty : n(k) = 0
        THEN <<{}, None>>
        ELSE <<{k \in empty : n(k) = 1}, b.board>>

\* the loop "for row, col, value in naked_singles": every listed cell is still
\* empty when its turn comes, so each gets its single candidate, its candidate
\* set becomes set() and _eliminate_candidates discards the value from its peers
assign_singles(b, singles) ==
    LET val(k) == CHOOSE v \in b.candidates[RowOf(k)][ColOfCell(k)] : TRUE
    IN  [b EXCEPT
            !.board = [r \in Idx |-> [c \in Idx |->
                IF (GRID_SIZE * r + c) \in singles THEN val(GRID_SIZE * r + c)
                ELSE b.board[r][c]]],
            !.candidates = [r \in Idx |-> [c \in Idx |->
                IF (GRID_SIZE * r + c) \in singles THEN {}
                ELSE b.candidates[r][c] \
                        {val(k) : k \in {j \in singles :
                            IsPeer(r, c, RowOf(j), ColOfCell(j))}}]]]

\* the singles in list order with their values, as _record_assignment gets them
SinglesSeq(b, singles) ==
    [i \in 1 .. Cardinality(singles) |->
        LET k == CHOOSE x \in singles : Cardinality({j \in singles : j < x}) = i - 1
        IN  <<RowOf(k), ColOfCell(k),
              CHOOSE v \in b.candidates[RowOf(k)][ColOfCell(k)] : TRUE>>]

\* solve() up to the loop: self._initialize_candidates(); changed = True.
\* On a board already overwritten with None the first subscript raises.
NS_Init ==
    /\ sv.kind = NS /\ sv.pc = "call"
    /\ IF CurBoard.board = None
       THEN /\ sv' = [sv EXCEPT !.pc = "done", !.result = "raise"]
            /\ UNCHANGED <<ub, wb>>
       ELSE /\ SetCurBoard([CurBoard EXCEPT
                    !.candidates = ns_initialize_candidates(CurBoard.board)])
            /\ sv' = [sv EXCEPT !.pc = "loop", !.changed = TRUE]
    /\ UNCHANGED <<cb, ob, mx, last>>

\* one test of "while changed and not self.board.is_solved()" and, when it
\* holds, one run of the loop body
NS_Loop ==
    /\ sv.kind = NS /\ sv.pc = "loop"
    /\ sv.changed /\ ~is_solved(CurBoard.board)
    /\ LET found == find_naked_singles(CurBoard)
           b1 == [CurBoard EXCEPT !.board = found[2]]
           hist == SinglesSeq(CurBoard, found[1])
       IN  IF found[1] = {}
           THEN /\ SetCurBoard(b1)
                /\ sv' = [sv EXCEPT !.changed = FALSE]
           ELSE /\ SetCurBoard(assign_singles(b1, found[1]))
                /\ sv' = [sv EXCEPT !.changed = TRUE,
                                    !.step_history = @ \o hist,
                                    !.cells_assigned = @ + Len(hist)]
    /\ UNCHANGED <<cb, ob, mx, last>>

\* the loop is left: return self.board.is_solved(), which raises TypeError
\* when self.board.board is None
NS_Exit ==
    /\ sv.kind = NS /\ sv.pc = "loop"
    /\ ~(sv.changed /\ ~is_solved(CurBoard.board))
    /\ sv' = [sv EXCEPT
            !.pc = "done",
            !.result = IF CurBoard.board = None THEN "raise"
                       ELSE IF is_solved(CurBoard.board) THEN "true" ELSE "false"]
    /\ UNCHANGED <<ub, cb, wb, ob, mx, last>>


(***************************************************************************)
(* DancingLinksSolver                                                      *)
(***************************************************************************)
\* "for _ in range(4): self._cover(node.column); node = node.right"
CoverFour(m, row_node) ==
    LET n1 == row_node
        m1 == cover(m, ColumnOf[n1])
        n2 == Right(m1, n1)
        m2 == cover(m1, ColumnOf[n2])
        n3 == Right(m2, n2)
        m3 == cover(m2, ColumnOf[n3])
        n4 == Right(m3, n3)
    IN  cover(m3, ColumnOf[n4])

\* the body of the loops over r and c in solve() for cell k = 9 * r + c;
\* s = [m |-> matrix, solution |-> self.solution]
PreCoverCell(g, s, k) ==
    LET d == g[RowOf(k)][ColOfCell(k)]
    IN  IF d # 0 /\ d \in Digits
        THEN [m |-> CoverFour(s.m, placement_rows(RowOf(k), ColOfCell(k), d)),
              solution |-> Append(s.solution, placement_rows(RowOf(k), ColOfCell(k), d))]
        ELSE s

\* for k in lo..hi, in increasing order: s = PreCoverCell(g, s, k)
RECURSIVE PreCover(_, _, _, _)
PreCover(g, s, lo, hi) ==
    IF lo > hi \/ s.m.hang THEN s
    ELSE IF lo = hi THEN PreCoverCell(g, s, lo)
    ELSE LET mid == (lo + hi) \div 2
             s1 == PreCover(g, s, lo, mid)
         IN  IF s1.m.hang THEN s1 ELSE PreCover(g, s1, mid + 1, hi)

\* "node = cur.right; while node != cur: self._cover(node.column)"
RECURSIVE CoverOthers(_, _, _, _)
CoverOthers(m, cur, node, fuel) ==
    IF node = cur \/ m.hang THEN m
    ELSE IF fuel = 0 THEN [m EXCEPT !.hang = TRUE]
    ELSE LET m1 == cover(m, ColumnOf[node])
         IN  CoverOthers(m1, cur, Right(m1, node), fuel - 1)

\* "node = cur.left; while node != cur: self._uncover(node.column)"
RECURSIVE UncoverOthers(_, _, _, _)
UncoverOthers(m, cur, node, fuel) ==
    IF node = cur \/ m.hang THEN m
    ELSE IF fuel = 0 THEN [m EXCEPT !.hang = TRUE]
    ELSE LET m1 == uncover(m, ColumnOf[node])
         IN  UncoverOthers(m1, cur, Left(m1, node), fuel - 1)

\* a loop that never ends: solve() does not return
Hang(s) == [s EXCEPT !.pc = "done", !.result = "hang", !.stack = << >>]

\* solve() up to the call of _search: the given cells are forced
DLX_Pre ==
    /\ sv.kind = DLX /\ sv.pc = "pre"
    /\ \E s1 \in {PreCover(CurBoard.board, [m |-> mx, solution |-> sv.solution],
                              0, NCELLS - 1)} :
           /\ mx' = s1.m
           /\ sv' = IF s1.m.hang THEN Hang(sv)
                    ELSE [sv EXCEPT !.solution = s1.solution, !.pc = "call"]
    /\ UNCHANGED <<ub, cb, wb, ob, last>>

\* the matrix and self.solution as a call of _search finds them; every frame
\* of _search keeps them as f.entry, which no statement of the solver reads
Entry == [m |-> mx, solution |-> sv.solution]

\* _search is entered, up to its loop over the rows of the chosen column
DLX_Call ==
    /\ sv.kind = DLX /\ sv.pc = "call"
    /\ Len(sv.stack) < RecursionLimit
    /\ IF mx.right[HEADER] = HEADER
       THEN sv' = Return(sv, TRUE) /\ mx' = mx
       ELSE \E sel \in {select_column(mx)} :
                LET col == sel.min_col
                IN  IF sel.node # HEADER THEN sv' = Hang(sv) /\ mx' = mx
                    ELSE IF mx.size[col] = 0 THEN sv' = Return(sv, FALSE) /\ mx' = mx
                    ELSE \E m1 \in {cover(mx, col)} :
                         /\ mx' = m1
                         /\ sv' = IF m1.hang THEN Hang(sv)
                                  ELSE [sv EXCEPT
                                        !.stack = Append(@, [col |-> col,
                                                             cur |-> m1.down[col],
                                                             entry |-> Entry]),
                                        !.pc = "loop"]
    /\ UNCHANGED <<ub, cb, wb, ob, last>>

\* one call of _search too many: the interpreter raises RecursionError, which
\* leaves solve() through every frame
DLX_RecursionError ==
    /\ sv.kind = DLX /\ sv.pc = "call"
    /\ Len(sv.stack) >= RecursionLimit
    /\ sv' = [sv EXCEPT !.pc = "done", !.result = "raise", !.stack = << >>]
    /\ UNCHANGED <<ub, cb, wb, ob, mx, last>>

\* "while cur != col.node": the next row is selected and the search recurses,
\* or the rows are used up, the column is uncovered and _search returns False
DLX_Loop ==
    /\ sv.kind = DLX /\ sv.pc = "loop"
    /\ LET f == Top(sv.stack)
       IN  IF f.cur = f.col
           THEN \E m1 \in {uncover(mx, f.col)} :
                    /\ mx' = m1
                    /\ sv' = IF m1.hang THEN Hang(sv)
                             ELSE Return([sv EXCEPT !.stack = Pop(@)], FALSE)
           ELSE \E m1 \in {CoverOthers(mx, f.cur, Right(mx, f.cur), 4)} :
                    /\ mx' = m1
                    /\ sv' = IF m1.hang THEN Hang(sv)
                             ELSE [sv EXCEPT !.solution = Append(@, f.cur),
                                             !.guesses = @ + 1,
                                             !.pc = "call"]
    /\ UNCHANGED <<ub, cb, wb, ob, last>>

\* the recursive call returned False: the row is taken back
DLX_Backtrack ==
    /\ sv.kind = DLX /\ sv.pc = "ret" /\ sv.stack # << >> /\ ~sv.retval
    /\ \E m1 \in {UncoverOthers(mx, Top(sv.stack).cur, Left(mx, Top(sv.stack).cur), 4)} :
       LET f == Top(sv.stack)
       IN  /\ mx' = m1
           /\ sv' = IF m1.hang THEN Hang(sv)
                    ELSE [sv EXCEPT !.solution = Pop(@),
                                    !.backtracks = @ + 1,
                                    !.stack = SetTop(@, [f EXCEPT !.cur = m1.down[f.cur]]),
                                    !.pc = "loop"]
    /\ UNCHANGED <<ub, cb, wb, ob, last>>

\* a faulty decoding that swaps the row and the column of a selected
\* placement: the fault the property of C3 must detect
Decode_Transposed(m, row_node) ==
    LET p == (row_node - HEADER - 1) \div 4
    IN  <<PlC(p), PlR(p), PlD(p)>>

\* the (r, c, d) solve() reads off the four nodes of a selected row: r and c
\* from the node of a "cell" column, d from the node of a "row" column, the
\* last node of a type winning; None where the loop leaves one unset
Decode(m, row_node) ==
    LET n1 == row_node
        n2 == Right(m, n1)
        n3 == Right(m, n2)
        n4 == Right(m, n3)
        ids == <<constraint_id(ColumnOf[n1]), constraint_id(ColumnOf[n2]),
                 constraint_id(ColumnOf[n3]), constraint_id(ColumnOf[n4])>>
        cellAt == {i \in 1 .. 4 : ids[i][1] = "cell"}
        rowAt == {i \in 1 .. 4 : ids[i][1] = "row"}
    IN  IF cellAt = {} \/ rowAt = {} THEN None
        ELSE <<ids[Max(cellAt)][2], ids[Max(cellAt)][3], ids[Max(rowAt)][3]>>

\* a faulty round that records the assignment and leaves the grid alone:
\* the fault the property of C4 must detect
ExtractRow_KeepGrid(st, solution, m, i) ==
    [st EXCEPT !.history = Append(@, <<0, 0, 1>>)]

\* one round of "for row_node in self.solution" for the row at position i;
\* st = [board |-> self.board.board, history |-> the assignments recorded]
ExtractRow(st, solution, m, i) ==
    LET t == Decode(m, solution[i])
    IN  IF t = None THEN st
        ELSE [board |-> [st.board EXCEPT ![t[1]][t[2]] = t[3]],
              history |-> Append(st.history, t)]

\* the rounds for the positions lo..hi, in increasing order
RECURSIVE ExtractRows(_, _, _, _, _)
ExtractRows(st, solution, m, lo, hi) ==
    IF lo > hi THEN st
    ELSE IF lo = hi THEN ExtractRow(st, solution, m, lo)
    ELSE LET mid == (lo + hi) \div 2
             s1 == ExtractRows(st, solution, m, lo, mid)
         IN  IF Len(s1.history) < 0 THEN s1
             ELSE ExtractRows(s1, solution, m, mid + 1, hi)

\* "for row_node in self.solution": the grid and the assignments recorded
Extract(g, solution, m) ==
    ExtractRows([board |-> g, history |-> << >>], solution, m, 1, Len(solution))

(***************************************************************************)
(* The calls on a solver object                                            *)
(***************************************************************************)
\* largest number of solve() calls between two resets of a solver
MaxSolves == 2
\* largest number of reset() calls on a solver
MaxResets == 1

\* solver = Kind(board)
Construct(kind) ==
    /\ sv.kind = "none"
    /\ wb' = board_copy(ub)
    /\ ob' = board_copy(ub)
    /\ sv' = SolverInit(kind)
    /\ mx' = IF kind = DLX THEN prepare_matrix ELSE NoMatrix
    /\ UNCHANGED <<ub, cb, last>>

\* solver.solve() is called
SolveCall ==
    /\ sv.pc \in {"idle", "done"}
    /\ sv.calls < MaxSolves
    /\ sv' = [sv EXCEPT !.pc = IF sv.kind = DLX THEN "pre" ELSE "call",
                        !.stack = << >>, !.result = "none", !.calls = @ + 1,
                        !.before = [outcome |-> Outcome(sv, CurBoard),
                                    step_history |-> sv.step_history]]
    /\ UNCHANGED <<ub, cb, wb, ob, mx, last>>

\* a recursive search hands its result to solve(): True passes through every
\* frame in progress unchanged, False arrives when no frame is left.
\* DancingLinksSolver.solve() then writes the selected rows to the board.
SolveReturn ==
    /\ sv.kind \in {BT, MRV, DLX}
    /\ sv.pc = "ret" /\ (sv.retval \/ sv.stack = << >>)
    /\ IF sv.kind = DLX /\ sv.retval
       THEN \E x \in {Extract(CurBoard.board, sv.solution, mx)} :
                /\ SetCurBoard([CurBoard EXCEPT !.board = x.board])
                /\ sv' = [sv EXCEPT !.pc = "done", !.stack = << >>, !.result = "true",
                                    !.step_history = @ \o x.history,
                                    !.cells_assigned = @ + Len(x.history)]
       ELSE /\ sv' = [sv EXCEPT !.pc = "done", !.stack = << >>,
                                !.result = IF sv.retval THEN "true" ELSE "false"]
            /\ UNCHANGED <<ub, wb>>
    /\ UNCHANGED <<cb, ob, mx, last>>

\* a faulty reset() that clears the statistics and restores the board but
\* leaves the matrix and the solution stack as the last solve() left them:
\* the fault the property of C11 must detect
Reset_NoRebuild ==
    /\ sv.pc \in {"idle", "done"}
    /\ sv.resets < MaxResets
    /\ wb' = board_copy(ob)
    /\ sv' = [sv EXCEPT !.ref = "wb", !.resets = @ + 1, !.pc = "idle",
                        !.cells_assigned = 0, !.guesses = 0, !.backtracks = 0,
                        !.step_history = << >>, !.calls = 0, !.result = "none",
                        !.stack = << >>]
    /\ UNCHANGED <<ub, cb, ob, mx, last>>

\* a faulty reset() that restores the board and rebuilds the matrix but
\* keeps the statistics: the fault the property of C12 must detect
Reset_KeepStatistics ==
    /\ sv.pc \in {"idle", "done"}
    /\ sv.resets < MaxResets
    /\ wb' = board_copy(ob)
    /\ sv' = [SolverInit(sv.kind) EXCEPT
                !.ref = "wb", !.resets = sv.resets + 1,
                !.prev = Outcome(sv, CurBoard),
                !.cells_assigned = sv.cells_assigned, !.guesses = sv.guesses,
                !.backtracks = sv.backtracks, !.step_history = sv.step_history]
    /\ mx' = IF sv.kind = DLX THEN prepare_matrix ELSE mx
    /\ UNCHANGED <<ub, cb, ob, last>>

\* solver.reset(): SudokuSolver.reset, and for DancingLinksSolver the rebuild
\* of the matrix as well
Reset ==
    /\ sv.pc \in {"idle", "done"}
    /\ sv.resets < MaxResets
    /\ wb' = board_copy(ob)
    /\ sv' = [SolverInit(sv.kind) EXCEPT !.ref = "wb", !.resets = sv.resets + 1,
                                         !.prev = Outcome(sv, CurBoard)]
    /\ mx' = IF sv.kind = DLX THEN prepare_matrix ELSE mx
    /\ UNCHANGED <<ub, cb, ob, last>>

(***************************************************************************)
(* Input puzzles: the solved grid of the test fixtures with some of the    *)
(* cells HoleSeq[1..NumHoleCells] blanked and, possibly, the cell          *)
(* OverrideCell overwritten with a value of 1..MaxOverride; the empty      *)
(* grid; and two grids whose givens conflict.                              *)
(***************************************************************************)
HoleSeq == << <<2, 5>>, <<5, 4>>, <<2, 4>>, <<5, 5>>, <<0, 0>>, <<8, 8>> >>
OverrideCell == <<2, 4>>

\* the base grid with the cells of holes blanked and then, for every
\* <<r, c, v>> of overrides, cell (r, c) set to v
Puzzle(holes, overrides) ==
    [r \in Idx |-> [c \in Idx |->
        IF \E o \in overrides : o[1] = r /\ o[2] = c
        THEN (CHOOSE o \in overrides : o[1] = r /\ o[2] = c)[3]
        ELSE IF <<r, c>> \in holes THEN EMPTY
        ELSE BaseGrid[r][c]]]

\* a second 8 in row 0, column 0 and box 0 of a full grid
FullConflictGrid == Puzzle({}, {<<0, 0, 8>>})

\* four empty cells and a second 3 in row 7, column 6 and box 8
HoleConflictGrid == Puzzle({<<2, 4>>, <<3, 8>>, <<4, 6>>, <<8, 0>>}, {<<7, 6, 3>>})

Puzzles ==
    {Puzzle({HoleSeq[i] : i \in holes},
            IF ov = 0 THEN {} ELSE {<<OverrideCell[1], OverrideCell[2], ov>>}) :
        holes \in SUBSET (1 .. NumHoleCells), ov \in 0 .. MaxOverride}
        \cup {EmptyGrid, FullConflictGrid, HoleConflictGrid}

NoCall == [op |-> "none"]

Init ==
    /\ \E g \in Puzzles : ub = BoardInit(g)
    /\ cb = NoBoard
    /\ wb = NoBoard
    /\ ob = NoBoard
    /\ sv = NoSolver
    /\ mx = NoMatrix
    /\ last = NoCall

Next ==
    \/ \E kind \in Kinds : Construct(kind)
    \/ SolveCall
    \/ BT_Call
    \/ BT_Loop
    \/ BT_Backtrack
    \/ MRV_Call
    \/ MRV_Loop
    \/ MRV_Backtrack
    \/ NS_Init
    \/ NS_Loop
    \/ NS_Exit
    \/ DLX_Pre
    \/ DLX_Call
    \/ DLX_RecursionError
    \/ DLX_Loop
    \/ DLX_Backtrack
    \/ SolveReturn
    \/ Reset

Spec == Init /\ [][Next]_vars

(***************************************************************************)
(* Strings: a str is the sequence of its characters                        *)
(***************************************************************************)
DigitChars == <<"0", "1", "2", "3", "4", "5", "6", "7", "8", "9">>

\* the character FULLWIDTH DIGIT FIVE, one of the decimal digits outside
\* "0".."9" that int() accepts; it is read as 5
WideFive == "U+FF15"

\* int(ch) returns a value
IsDigitChar(ch) == ch = WideFive \/ \E i \in 1 .. Len(DigitChars) : DigitChars[i] = ch

\* str(val) for an int val >= 0: its decimal digits
RECURSIVE str(_)
str(val) ==
    IF val < 10 THEN <<DigitChars[val + 1]>>
    ELSE Append(str(val \div 10), DigitChars[(val % 10) + 1])

\* int(ch) for a single decimal digit ch
int(ch) ==
    IF ch = WideFive THEN 5
    ELSE (CHOOSE i \in 1 .. Len(DigitChars) : DigitChars[i] = ch) - 1

\* "".join(chars) for the cells lo..hi of SudokuBoard.to_string
RECURSIVE JoinCells(_, _, _)
JoinCells(g, lo, hi) ==
    IF lo > hi THEN << >>
    ELSE IF lo = hi
         THEN LET val == g[RowOf(lo)][ColOfCell(lo)]
              IN  IF val # EMPTY THEN str(val) ELSE <<"0">>
    ELSE JoinCells(g, lo, (lo + hi) \div 2) \o JoinCells(g, ((lo + hi) \div 2) + 1, hi)

\* SudokuBoard.to_string
to_string(g) == JoinCells(g, 0, NCELLS - 1)

\* the positions idx (from 0) at which "val = int(s[idx])" or the range
\* check that follows it raises ValueError
BadPositions(s) == {idx \in 0 .. (Len(s) - 1) : ~IsDigitChar(s[idx + 1])}

\* the grid both from_string functions read from an all-digit string
ParseGrid(s) == [r \in Idx |-> [c \in Idx |-> int(s[GRID_SIZE * r + c + 1])]]

\* SudokuBoard.from_string called on board b: raised tells whether ValueError
\* was raised, b is the board afterwards.  A wrong length raises before
\* anything is assigned; a bad character raises after self.board has been
\* replaced by the list of the rows read completely so far.
from_string(b, s) ==
    IF Len(s) # GRID_SIZE * GRID_SIZE THEN [raised |-> TRUE, b |-> b]
    ELSE IF BadPositions(s) # {}
    THEN [raised |-> TRUE,
          b |-> [b EXCEPT !.board =
                    [r \in 0 .. (RowOf(Min(BadPositions(s))) - 1) |->
                        [c \in Idx |-> int(s[GRID_SIZE * r + c + 1])]]]]
    ELSE [raised |-> FALSE, b |-> BoardInit(ParseGrid(s))]

\* PuzzleLoader.from_string: raised tells whether ValueError was raised, b is
\* the board returned
loader_from_string(puzzle_str) ==
    LET stripped == SelectSeq(puzzle_str, LAMBDA ch : ch \notin {" ", "\n"})
    IN  IF Len(stripped) # 81 \/ BadPositions(stripped) # {}
        THEN [raised |-> TRUE, b |-> NoBoard]
        ELSE [raised |-> FALSE, b |-> BoardInit(ParseGrid(stripped))]

(***************************************************************************)
(* The calls on a board object.  ub is the board b the caller works on, cb *)
(* a second board the caller obtained from it (a copy, or a board loaded   *)
(* from b.to_string()), which the caller drops at the next call on b.      *)
(* last records the call made last and the board b as it was before it.    *)
(***************************************************************************)
Call(op, row, col, value, ret, pre) ==
    [op |-> op, row |-> row, col |-> col, value |-> value, ret |-> ret, pre |-> pre]

\* the cells and the values the caller passes to set_value
ApiCellSeq == << <<2, 5>>, <<2, 4>>, <<5, 5>>, <<5, 4>> >>
ApiCells == {ApiCellSeq[i] : i \in 1 .. NumApiCells}
ApiValues == (0 .. MaxApiValue) \cup {MaxGridValue}

\* b.set_value(row, col, value)
SetValue(row, col, value) ==
    /\ \E res \in {set_value(ub, row, col, value)} :
        /\ ub' = res[2]
        /\ last' = Call("set_value", row, col, value, res[1], ub)
    /\ cb' = NoBoard
    /\ UNCHANGED <<wb, ob, sv, mx>>

\* b.reset()
BoardReset ==
    /\ ub' = board_reset(ub)
    /\ last' = Call("reset", 0, 0, 0, TRUE, ub)
    /\ cb' = NoBoard
    /\ UNCHANGED <<wb, ob, sv, mx>>

\* c = b.copy()
Copy ==
    /\ last.op # "copy"
    /\ cb' = board_copy(ub)
    /\ last' = Call("copy", 0, 0, 0, TRUE, ub)
    /\ UNCHANGED <<ub, wb, ob, sv, mx>>

\* c.set_value(row, col, value) on the copy just made
SetValueCopy(row, col, value) ==
    /\ last.op = "copy"
    /\ \E res \in {set_value(cb, row, col, value)} :
        /\ cb' = res[2]
        /\ last' = Call("copy.set_value", row, col, value, res[1], ub)
    /\ UNCHANGED <<ub, wb, ob, sv, mx>>

\* c = SudokuBoard(); c.from_string(b.to_string())
FromString ==
    /\ last.op # "from_string"
    /\ \E res \in {from_string(BoardInit(EmptyGrid), to_string(ub.board))} :
        /\ cb' = res.b
        /\ last' = Call("from_string", 0, 0, 0, ~res.raised, ub)
    /\ UNCHANGED <<ub, wb, ob, sv, mx>>

\* c = PuzzleLoader.from_string(b.to_string())
LoaderFromString ==
    /\ last.op # "PuzzleLoader.from_string"
    /\ \E res \in {loader_from_string(to_string(ub.board))} :
        /\ cb' = res.b
        /\ last' = Call("PuzzleLoader.from_string", 0, 0, 0, ~res.raised, ub)
    /\ UNCHANGED <<ub, wb, ob, sv, mx>>

\* the solved base grid with every 9 replaced by MaxGridValue: 9 rows of 9
\* entries, which is all SudokuBoard.__init__ checks
OutOfRangeGrid ==
    [r \in Idx |-> [c \in Idx |->
        IF BaseGrid[r][c] = GRID_SIZE THEN MaxGridValue ELSE BaseGrid[r][c]]]

\* the grids the caller constructs b from
BoardGrids ==
    {Puzzle({HoleSeq[i] : i \in 1 .. n}, {}) : n \in 0 .. NumHoleCells}
        \cup {OutOfRangeGrid}

\* SudokuBoard(grid) for a list of lists grid (a tuple of tuples here):
\* raised tells whether ValueError was raised, b is the board constructed
board_new(grid) ==
    IF Len(grid) # GRID_SIZE \/ \E i \in 1 .. Len(grid) : Len(grid[i]) # GRID_SIZE
    THEN [raised |-> TRUE, b |-> NoBoard]
    ELSE [raised |-> FALSE,
          b |-> BoardInit([r \in Idx |-> [c \in Idx |-> grid[r + 1][c + 1]]])]

\* the grids the caller passes to SudokuBoard(grid): the solved grid; 8
\* rows; a row of 10 and a row of 8 entries; an entry above 9; an entry
\* below 0
GridInputs ==
    { BaseRows,
      SubSeq(BaseRows, 1, GRID_SIZE - 1),
      [BaseRows EXCEPT ![2] = Append(@, 0)],
      [BaseRows EXCEPT ![9] = SubSeq(@, 1, GRID_SIZE - 1)],
      [BaseRows EXCEPT ![5][5] = MaxGridValue],
      [BaseRows EXCEPT ![1][1] = -1] }

\* c = SudokuBoard(grid), the first thing the caller does with b at hand
NewBoard(grid) ==
    /\ last.op = "none"
    /\ \E res \in {board_new(grid)} :
        /\ cb' = res.b
        /\ last' = [op |-> "SudokuBoard", grid |-> grid, ret |-> ~res.raised,
                    pre |-> ub]
    /\ UNCHANGED <<ub, wb, ob, sv, mx>>

\* the strings the caller passes to the from_string functions: the solved
\* grid's 81 digits; 80 and 82 digits; a letter, a dot and a fullwidth digit
\* in the place of a digit; a newline after and a blank before the 81
\* digits; a blank in the place of the last digit
BaseText == to_string(BaseGrid)
Texts ==
    { BaseText,
      SubSeq(BaseText, 1, Len(BaseText) - 1),
      Append(BaseText, "0"),
      [BaseText EXCEPT ![1] = "x"],
      [BaseText EXCEPT ![41] = "."],
      [BaseText EXCEPT ![1] = WideFive],
      Append(BaseText, "\n"),
      <<" ">> \o BaseText,
      [BaseText EXCEPT ![81] = " "] }

\* c = SudokuBoard(); c.from_string(s), the first thing the caller does
FromStringText(s) ==
    /\ last.op = "none"
    /\ \E res \in {from_string(BoardInit(EmptyGrid), s)} :
        /\ cb' = res.b
        /\ last' = [op |-> "c.from_string(s)", text |-> s, ret |-> ~res.raised,
                    pre |-> BoardInit(EmptyGrid)]
    /\ UNCHANGED <<ub, wb, ob, sv, mx>>

\* c = PuzzleLoader.from_string(s), the first thing the caller does
LoaderFromStringText(s) ==
    /\ last.op = "none"
    /\ \E res \in {loader_from_string(s)} :
        /\ cb' = res.b
        /\ last' = [op |-> "PuzzleLoader.from_string(s)", text |-> s,
                    ret |-> ~res.raised, pre |-> NoBoard]
    /\ UNCHANGED <<ub, wb, ob, sv, mx>>

\* list[i] for a list of n items: raised tells whether IndexError is raised,
\* at is the position read (an index below 0 counts from the end)
PyIndex(i, n) ==
    [raised |-> ~(-n <= i /\ i < n), at |-> IF i < 0 THEN i + n ELSE i]

\* b.get_candidates(row, col) for any integers row and col: raised tells
\* whether IndexError was raised, value is the set returned
get_candidates_call(b, row, col) ==
    LET r == PyIndex(row, GRID_SIZE)
        c == PyIndex(col, GRID_SIZE)
    IN  IF r.raised \/ c.raised THEN [raised |-> TRUE, value |-> {}]
        ELSE [raised |-> FALSE, value |-> get_candidates(b, r.at, c.at)]

\* the rows and columns the caller passes to get_candidates and the
\* (row, col, value) it passes to set_value with one of them out of range
QueryIndexes == {-7, -4, 2, GRID_SIZE}
RangeCalls ==
    {<<-1, 4, 5>>, <<GRID_SIZE, 4, 5>>, <<2, -1, 0>>, <<2, GRID_SIZE, 5>>,
     <<2, 4, -1>>}

\* b.get_candidates(row, col), the first thing the caller does with b
GetCandidates(row, col) ==
    /\ last.op = "none"
    /\ last' = Call("get_candidates", row, col, 0,
                    get_candidates_call(ub, row, col), ub)
    /\ cb' = NoBoard
    /\ UNCHANGED <<ub, wb, ob, sv, mx>>

InitBoard ==
    /\ \E g \in BoardGrids : ub = BoardInit(g)
    /\ cb = NoBoard
    /\ wb = NoBoard
    /\ ob = NoBoard
    /\ sv = NoSolver
    /\ mx = NoMatrix
    /\ last = Call("none", 0, 0, 0, TRUE, NoBoard)

NextBoard ==
    \/ \E cell \in ApiCells, value \in ApiValues :
            SetValue(cell[1], cell[2], value)
    \/ BoardReset
    \/ Copy
    \/ \E cell \in ApiCells, value \in ApiValues :
            SetValueCopy(cell[1], cell[2], value)
    \/ FromString
    \/ LoaderFromString
    \/ \E grid \in GridInputs : NewBoard(grid)
    \/ \E s \in Texts : FromStringText(s)
    \/ \E s \in Texts : LoaderFromStringText(s)
    \/ \E a \in RangeCalls : last.op = "none" /\ SetValue(a[1], a[2], a[3])
    \/ \E row \in QueryIndexes, col \in QueryIndexes : GetCandidates(row, col)

SpecBoard == InitBoard /\ [][NextBoard]_vars

(***************************************************************************)
(* What the claims speak about                                             *)
(***************************************************************************)
\* value occurs in the row, the column or the 3x3 box of (row, col), at a
\* cell other than (row, col)
OccursAround(g, row, col, value) ==
    \E r, c \in Idx :
        /\ <<r, c>> # <<row, col>>
        /\ r = row \/ c = col
              \/ (r \div BOX_SIZE = row \div BOX_SIZE /\ c \div BOX_SIZE = col \div BOX_SIZE)
        /\ g[r][c] = value

\* every row, every column and every 3x3 box holds each of 1..9 exactly once
AllPermutations(g) ==
    /\ \A r \in Idx : {g[r][c] : c \in Idx} = Digits
    /\ \A c \in Idx : {g[r][c] : r \in Idx} = Digits
    /\ \A br, bc \in 0 .. (BOX_SIZE - 1) :
          {g[BOX_SIZE * br + i][BOX_SIZE * bc + j] : i, j \in 0 .. (BOX_SIZE - 1)} = Digits

\* grid h holds the value of g in every cell that g has filled
Extends(h, g) == \A r, c \in Idx : g[r][c] # EMPTY => h[r][c] = g[r][c]

\* the complete valid grids that extend g, found by trying, in every empty
\* cell, the digits that do not occur around it
Completions(g) ==
    LET empty == get_empty_cells(g)
        free(k) == {d \in Digits : ~OccursAround(g, RowOf(k), ColOfCell(k), d)}
        fill(f) == [r \in Idx |-> [c \in Idx |->
                        IF g[r][c] = EMPTY THEN f[GRID_SIZE * r + c] ELSE g[r][c]]]
    IN  {h \in {fill(f) : f \in {f \in [empty -> UNION {free(k) : k \in empty}] :
                                    \A k \in empty : f[k] \in free(k)}} :
            AllPermutations(h)}

\* the givens of g can be extended to a complete valid grid
Extendable(g) == (Extends(BaseGrid, g) /\ AllPermutations(BaseGrid)) \/ Completions(g) # {}

\* g is one of the input puzzles with a few empty cells and has exactly one solution
UniqueSolution(g) ==
    /\ Cardinality(get_empty_cells(g)) <= NumHoleCells
    /\ Cardinality(Completions(g)) = 1

\* solve() has returned or raised, and it was the first solve() call on a
\* solver that was just constructed or reset
FirstSolveDone == sv.pc = "done" /\ sv.calls = 1

Searchers == {BT, MRV, DLX}

(***************************************************************************)
(* C1..C10                                                                 *)
(***************************************************************************)
\* C1: for each of the four solvers and every input board, conflicting givens
\* included, solve() returns true if and only if the solver's board is
\* completely filled and free of duplicates (is_solved) when it returns.
C1_TrueIffSolved ==
    (FirstSolveDone /\ sv.result \in {"true", "false"})
        => ((sv.result = "true") <=> is_solved(CurBoard.board))

\* C2: NakedSinglesSolver.solve() on a board in which some empty cell has no
\* candidate left returns false without raising, and the solver's board is
\* still a 9x9 grid afterwards.
C2_DeadCellReturnsFalse ==
    (FirstSolveDone /\ sv.kind = NS
        /\ (CurBoard.board = None
            \/ \E k \in get_empty_cells(CurBoard.board) :
                    CurBoard.candidates[RowOf(k)][ColOfCell(k)] = {}))
        => (sv.result = "false" /\ CurBoard.board # None)

\* C3: on every puzzle with exactly one solution, BacktrackingSolver,
\* BacktrackingMRVSolver and DancingLinksSolver each return true and leave the
\* same solution string in their board: the string of that one solution.
C3_UniqueSolutionAgreed ==
    (FirstSolveDone /\ sv.kind \in Searchers /\ UniqueSolution(ob.board))
        => /\ sv.result = "true"
           /\ \A h \in Completions(ob.board) :
                    to_string(CurBoard.board) = to_string(h)

C3_Witness ==
    /\ FirstSolveDone /\ sv.kind = DLX /\ UniqueSolution(ob.board)
    /\ Cardinality(get_empty_cells(ob.board)) = 3
    /\ sv.result = "true"
    /\ to_string(CurBoard.board) = to_string(BaseGrid)

\* C4: on every board whose givens do not conflict, each of the three
\* searching solvers returns true exactly when the givens can be extended to
\* a complete valid grid, and on true the board is such a grid and every
\* given cell still holds its given value; DancingLinksSolver on the empty
\* board returns true with a valid complete grid.
C4_TrueIffExtendable ==
    (FirstSolveDone /\ sv.kind \in Searchers /\ is_valid(ob.board))
        => /\ sv.result \in {"true", "false"}
           /\ (sv.result = "true") <=> Extendable(ob.board)
           /\ sv.result = "true"
                => (AllPermutations(CurBoard.board) /\ Extends(CurBoard.board, ob.board))

C4_Witness ==
    /\ FirstSolveDone /\ sv.kind = DLX /\ ob.board = EmptyGrid
    /\ sv.result = "true" /\ AllPermutations(CurBoard.board)

C4_WitnessFalse ==
    /\ FirstSolveDone /\ sv.kind = MRV /\ is_valid(ob.board)
    /\ ~Extendable(ob.board) /\ sv.result = "false"

\* C5: constructing a solver on a board and calling solve() never changes the
\* grid of the board object the caller passed to the constructor.
C5_CallerBoardUntouched == sv.kind \in Kinds => ub.board = ob.board

\* C6: set_value(r, c, v) with v in 1..9 that already occurs in row r, column
\* c or the box of (r, c), at another cell, returns false and leaves the grid
\* and every candidate set as they were before the call.
C6_ConflictRejected ==
    (last.op = "set_value" /\ last.value \in Digits
        /\ OccursAround(last.pre.board, last.row, last.col, last.value))
        => /\ last.ret = FALSE
           /\ ub.board = last.pre.board
           /\ ub.candidates = last.pre.candidates

C6_Witness ==
    /\ last.op = "set_value" /\ last.value \in Digits
    /\ last.pre.board[last.row][last.col] = EMPTY
    /\ OccursAround(last.pre.board, last.row, last.col, last.value)
    /\ last.ret = FALSE /\ ub = last.pre

\* C7: after any sequence of set_value and reset calls on a board, every
\* filled cell has an empty candidate set and every empty cell's candidate
\* set is exactly the digits that occur neither in its row nor in its column
\* nor in its box.
C7_CandidatesExact ==
    \A r, c \in Idx :
        ub.candidates[r][c] =
            IF ub.board[r][c] # EMPTY THEN {}
            ELSE {d \in Digits : ~OccursAround(ub.board, r, c, d)}

\* C8: for every board the grid constructor or from_string accepts,
\* is_solved() is true if and only if every row, column and box contains
\* each of 1..9 exactly once.
C8_SolvedIffPermutations == is_solved(ub.board) <=> AllPermutations(ub.board)

\* C9: for any board b, loading b.to_string() with SudokuBoard.from_string or
\* PuzzleLoader.from_string yields a board whose grid equals b's grid.
C9_RoundTrip ==
    last.op \in {"from_string", "PuzzleLoader.from_string"}
        => (last.ret /\ cb.board = ub.board)

\* C10: immediately after c = b.copy(), c has the same grid, the same
\* candidate set for every cell and the same initial snapshot as b, and a
\* later set_value on c does not change b.
C10_CopyEqualAndIndependent ==
    /\ last.op = "copy"
        => /\ to_string(cb.board) = to_string(ub.board)
           /\ cb.candidates = ub.candidates
           /\ cb.initial_board = ub.initial_board
    /\ last.op = "copy.set_value" => ub = last.pre

(***************************************************************************)
(* Claims about reset() and the statistics of a solver                     *)
(***************************************************************************)
\* reset() has returned and nothing has been called since
AfterReset == sv.pc = "idle" /\ sv.resets > 0

\* the node reached from the header node of column c by k steps down
RECURSIVE DownWalk(_, _, _)
DownWalk(m, c, k) == IF k = 0 THEN c ELSE m.down[DownWalk(m, c, k - 1)]

\* all 324 columns are linked in the header ring in the order of their
\* creation, and each has size 9 and 9 nodes of its own on its vertical ring
FreshMatrix(m) ==
    /\ \A h \in Heads :
        /\ m.right[h] = (IF h = HEADER THEN 1 ELSE h + 1)
        /\ m.left[h] = (IF h = 1 THEN HEADER ELSE h - 1)
    /\ \A c \in Columns :
        /\ m.size[c] = GRID_SIZE
        /\ Cardinality({DownWalk(m, c, k) : k \in 1 .. GRID_SIZE}) = GRID_SIZE
        /\ \A k \in 1 .. GRID_SIZE :
            /\ DownWalk(m, c, k) \notin Heads
            /\ ColumnOf[DownWalk(m, c, k)] = c
            /\ m.up[DownWalk(m, c, k)] = DownWalk(m, c, k - 1)
        /\ DownWalk(m, c, GRID_SIZE + 1) = c
        /\ m.up[c] = DownWalk(m, c, GRID_SIZE)

\* C11: after reset() on any solver, whatever solve() calls preceded it, the
\* working board's grid is the grid of the puzzle given at construction,
\* cells_assigned, guesses and backtracks are 0 and the step history is
\* empty; for DancingLinksSolver the matrix is as freshly built and the
\* solution stack is empty.
C11_ResetRestores ==
    AfterReset =>
        /\ CurBoard.board = ob.board
        /\ sv.cells_assigned = 0 /\ sv.guesses = 0 /\ sv.backtracks = 0
        /\ sv.step_history = << >>
        /\ sv.kind = DLX => (FreshMatrix(mx) /\ sv.solution = << >>)

\* a DancingLinksSolver is reset after a solve() that wrote to the board of
\* the caller
C11_Witness ==
    /\ AfterReset /\ sv.kind = DLX
    /\ ub.board # ob.board
    /\ CurBoard.board = ob.board
    /\ FreshMatrix(mx)

\* the string of a grid, where there is a grid
BoardString(g) == IF g = None THEN None ELSE to_string(g)

\* the first solve() after a reset() has ended, and the reset() followed the
\* first solve() after construction
SolveResetSolveDone ==
    sv.pc = "done" /\ sv.calls = 1 /\ sv.resets > 0 /\ sv.prev.calls = 1

\* C12: for every solver and every puzzle, solve() followed by reset()
\* followed by solve() returns the same result both times, with the same
\* final board string and the same cells_assigned, guesses and backtracks
\* after each solve().
C12_SolveResetSolveSame ==
    SolveResetSolveDone =>
        /\ sv.result = sv.prev.result
        /\ BoardString(CurBoard.board) = BoardString(sv.prev.board)
        /\ sv.cells_assigned = sv.prev.cells_assigned
        /\ sv.guesses = sv.prev.guesses
        /\ sv.backtracks = sv.prev.backtracks

\* BacktrackingSolver solves a puzzle with three empty cells twice, a reset()
\* in between
C12_Witness ==
    /\ SolveResetSolveDone /\ sv.kind = BT
    /\ Cardinality(get_empty_cells(ob.board)) = 3
    /\ sv.result = "true" /\ sv.prev.result = "true"
    /\ sv.guesses >= 3 /\ sv.cells_assigned >= 3

\* C13: at every point after construction, across any sequence of solve()
\* and reset() calls on any solver, the length of the step history equals
\* cells_assigned.
C13_HistoryLength ==
    sv.kind \in Kinds => Len(sv.step_history) = sv.cells_assigned

\* after a solve() that recorded assignments and a reset(), the second of
\* two solve() calls has recorded more than the solve() before the reset()
C13_Witness ==
    /\ sv.kind \in Kinds /\ sv.calls = 2 /\ sv.pc = "done"
    /\ sv.prev.cells_assigned > 0
    /\ sv.cells_assigned > sv.prev.cells_assigned
    /\ Len(sv.step_history) = sv.cells_assigned

(***************************************************************************)
(* Two solvers on one puzzle: the caller runs BacktrackingSolver on the    *)
(* puzzle, keeps what it observed, and then runs BacktrackingMRVSolver on  *)
(* the same puzzle.                                                        *)
(***************************************************************************)
\* a puzzle with one solution: the solved grid with 18 cells blanked
MrvWorseGrid ==
    Puzzle({<<0, 0>>, <<0, 3>>, <<0, 4>>, <<0, 6>>, <<1, 0>>, <<1, 1>>,
            <<1, 4>>, <<1, 5>>, <<2, 1>>, <<2, 6>>, <<2, 8>>, <<6, 0>>,
            <<6, 1>>, <<6, 3>>, <<6, 8>>, <<7, 3>>, <<7, 5>>, <<7, 8>>}, {})

ComparePuzzles == Puzzles \cup {MrvWorseGrid}

InitCompare ==
    /\ \E g \in ComparePuzzles : ub = BoardInit(g)
    /\ cb = NoBoard
    /\ wb = NoBoard
    /\ ob = NoBoard
    /\ sv = NoSolver
    /\ mx = NoMatrix
    /\ last = NoCall

\* the one solve() call on each of the two solvers
CompareSolveCall == sv.calls = 0 /\ SolveCall

\* solver_basic.solve() has ended: the caller keeps what it observed and
\* constructs solver_mrv = BacktrackingMRVSolver(puzzle)
ConstructSecond ==
    /\ sv.kind = BT /\ sv.pc = "done"
    /\ last' = [op |-> "BacktrackingSolver.solve", outcome |-> Outcome(sv, CurBoard)]
    /\ wb' = board_copy(ub)
    /\ ob' = board_copy(ub)
    /\ sv' = SolverInit(MRV)
    /\ UNCHANGED <<ub, cb, mx>>

NextCompare ==
    \/ Construct(BT)
    \/ CompareSolveCall
    \/ BT_Call
    \/ BT_Loop
    \/ BT_Backtrack
    \/ ConstructSecond
    \/ MRV_Call
    \/ MRV_Loop
    \/ MRV_Backtrack
    \/ SolveReturn

SpecCompare == InitCompare /\ [][NextCompare]_vars

\* C14: for every puzzle, the guesses counter of BacktrackingMRVSolver after
\* solve() is less than or equal to the guesses counter of
\* BacktrackingSolver after solve() on the same puzzle.
C14_MrvGuessesAtMostBasic ==
    (sv.kind = MRV /\ sv.pc = "done" /\ last.op = "BacktrackingSolver.solve")
        => sv.guesses <= last.outcome.guesses

(***************************************************************************)
(* Claims about the errors of the board's constructor, its deserializers   *)
(* and its direct calls                                                    *)
(***************************************************************************)
\* grid is 9 rows of 9 entries, each in 0..9
WellFormedGrid(grid) ==
    /\ Len(grid) = GRID_SIZE
    /\ \A i \in 1 .. Len(grid) :
        /\ Len(grid[i]) = GRID_SIZE
        /\ \A j \in 1 .. Len(grid[i]) : grid[i][j] \in 0 .. GRID_SIZE

\* C15: constructing a board from a grid fails with a format error whenever
\* the grid is not 9 rows of 9 entries or any entry is outside 0..9; no
\* board is produced in that case.
C15_ConstructorRejects ==
    (last.op = "SudokuBoard" /\ ~WellFormedGrid(last.grid))
        => (last.ret = FALSE /\ cb = NoBoard)

\* s is exactly 81 characters, each one of "0".."9"
WellFormedText(s) ==
    /\ Len(s) = GRID_SIZE * GRID_SIZE
    /\ \A i \in 1 .. Len(s) : \E d \in 1 .. Len(DigitChars) : s[i] = DigitChars[d]

TextCalls == {"c.from_string(s)", "PuzzleLoader.from_string(s)"}

\* C16: deserializing a puzzle string (PuzzleLoader.from_string or
\* SudokuBoard.from_string) fails with a format error whenever the string is
\* not exactly 81 characters long or contains any character other than the
\* digits "0".."9".
C16_DeserializeRejects ==
    (last.op \in TextCalls /\ ~WellFormedText(last.text)) => last.ret = FALSE

\* C17: a direct board call with a row or column outside 0..8 or a value
\* outside 0..9 (set_value, get_candidates) is reported as a range error: it
\* neither changes the grid or any candidate set nor returns the state of
\* some other cell.
C17_RangeErrorReported ==
    /\ (last.op = "set_value"
            /\ (last.row \notin Idx \/ last.col \notin Idx
                    \/ last.value \notin 0 .. GRID_SIZE))
        => (last.ret = FALSE /\ ub = last.pre)
    /\ (last.op = "get_candidates" /\ (last.row \notin Idx \/ last.col \notin Idx))
        => (last.ret.raised /\ ub = last.pre)

\* the candidate sets computed from grid g: none for a filled cell, and for
\* an empty cell the digits that occur nowhere in its row, column and box
CandidatesOf(g) ==
    [r \in Idx |-> [c \in Idx |->
        IF g[r][c] # EMPTY THEN {}
        ELSE {d \in Digits : ~OccursAround(g, r, c, d)}]]

\* C18: after any sequence of set_value calls on a board, reset() restores
\* the grid to the grid captured at construction and sets every candidate
\* set to the value computed from that grid; set_value (like every other
\* call of the sequence) never alters the initial snapshot.
C18_BoardResetRestores ==
    [][/\ ub'.initial_board = ub.initial_board
       /\ last'.op = "reset" =>
            /\ ub'.board = ub.initial_board
            /\ ub'.candidates = CandidatesOf(ub.initial_board)]_vars

\* reset() is called on a board whose grid and candidate sets set_value has
\* changed
C18_Witness ==
    /\ last.op = "reset"
    /\ last.pre.board # last.pre.initial_board
    /\ last.pre.candidates # ub.candidates
    /\ ub.board = ub.initial_board

(***************************************************************************)
(* _cover and _uncover on their own                                        *)
(*                                                                         *)
(* The matrix of a DancingLinksSolver after solve() has forced the givens  *)
(* of a puzzle without conflicts, then _cover on a column that is linked   *)
(* in the header ring and _uncover on the column covered last, in any      *)
(* order that keeps the calls nested.  last.covered holds the columns      *)
(* covered and not yet uncovered, last.pre the matrix before the latest    *)
(* _cover while nothing but its _uncover has run since.                    *)
(***************************************************************************)
\* largest number of columns covered and not yet uncovered
MaxCovers == 3

\* where the walk "while node != self.header: node = node.right" is after k
\* steps from node n, stopped once it is at column c or at self.header
RECURSIVE RingWalk(_, _, _, _)
RingWalk(m, n, c, k) ==
    IF k = 0 \/ n = HEADER \/ n = c THEN n
    ELSE IF k = 1 THEN m.right[n]
    ELSE LET n1 == RingWalk(m, n, c, k \div 2)
         IN  IF n1 = HEADER \/ n1 = c THEN n1 ELSE RingWalk(m, n1, c, k - (k \div 2))

\* column c is met on the walk "node = self.header.right; while node !=
\* self.header: node = node.right"
InHeaderRing(m, c) == RingWalk(m, m.right[HEADER], c, NCOLS) = c

\* the columns of the four nodes of the row of node n
RowColumns(m, n) ==
    {ColumnOf[n], ColumnOf[Right(m, n)], ColumnOf[Right(m, Right(m, n))],
     ColumnOf[Left(m, n)]}

\* the columns a _cover is tried on: the first column of the header ring
\* and the columns of its first and of its last row
CoverChoices(m) ==
    LET c0 == m.right[HEADER]
    IN  IF c0 = HEADER THEN {}
        ELSE IF m.down[c0] = c0 THEN {c0}
        ELSE RowColumns(m, m.down[c0]) \cup RowColumns(m, m.up[c0])

\* the puzzles without conflicting givens
CoverPuzzles ==
    {Puzzle({HoleSeq[i] : i \in holes}, {}) : holes \in SUBSET (1 .. NumHoleCells)}
        \cup {EmptyGrid}

InitCover ==
    /\ \E g \in CoverPuzzles :
       \E s1 \in {PreCover(g, [m |-> prepare_matrix, solution |-> << >>],
                           0, NCELLS - 1)} :
           /\ ub = BoardInit(g)
           /\ mx = s1.m
           /\ sv = [SolverInit(DLX) EXCEPT !.solution = s1.solution, !.pc = "call",
                                           !.calls = 1]
    /\ cb = NoBoard
    /\ wb = board_copy(ub)
    /\ ob = board_copy(ub)
    /\ last = [op |-> "none", covered |-> << >>, paired |-> FALSE, pre |-> NoMatrix]

\* self._cover(c) on a column c linked in the header ring
CoverColumn(c) ==
    /\ Len(last.covered) < MaxCovers
    /\ InHeaderRing(mx, c)
    /\ \E m1 \in {cover(mx, c)} : mx' = m1
    /\ last' = [op |-> "_cover", covered |-> Append(last.covered, c),
                paired |-> FALSE, pre |-> mx]
    /\ UNCHANGED <<ub, cb, wb, ob, sv>>

\* self._uncover(c) on the column c covered last
UncoverColumn ==
    /\ last.covered # << >>
    /\ \E m1 \in {uncover(mx, Top(last.covered))} : mx' = m1
    /\ last' = [op |-> "_uncover", covered |-> Pop(last.covered),
                paired |-> last.op = "_cover",
                pre |-> IF last.op = "_cover" THEN last.pre ELSE NoMatrix]
    /\ UNCHANGED <<ub, cb, wb, ob, sv>>

NextCover ==
    \/ \E c \in CoverChoices(mx) : CoverColumn(c)
    \/ UncoverColumn

SpecCover == InitCover /\ [][NextCover]_vars

\* C19: for any matrix state reached by properly nested cover calls and any
\* column c still linked in the header ring, _cover(c) immediately followed
\* by _uncover(c) restores every node's left, right, up and down link and
\* every column's size to their values before the cover.
C19_CoverUncoverInverse ==
    (last.op = "_uncover" /\ last.paired) =>
        /\ mx.left = last.pre.left
        /\ mx.right = last.pre.right
        /\ mx.up = last.pre.up
        /\ mx.down = last.pre.down
        /\ mx.size = last.pre.size

\* a column was covered and uncovered at once while two other columns were
\* covered, in a matrix in which the givens of a puzzle are forced
C19_Witness ==
    /\ last.op = "_uncover" /\ last.paired
    /\ Len(last.covered) = MaxCovers - 1
    /\ sv.solution # << >>
    /\ mx = last.pre
    /\ mx.size # prepare_matrix.size

(***************************************************************************)
(* Claims about _search                                                    *)
(***************************************************************************)
\* this step is a return of False from a call of _search: from the test of
\* col.size on entry, or from the end of the loop over the rows
SearchReturnsFalse ==
    /\ sv.kind = DLX /\ sv.pc \in {"call", "loop"}
    /\ sv'.pc = "ret" /\ ~sv'.retval

\* the matrix and self.solution when the call that is returning started
EntryOfReturning == IF sv.pc = "call" THEN Entry ELSE Top(sv.stack).entry

\* C20: whenever DancingLinksSolver._search returns false, every node link,
\* every column size and the solution stack are exactly as they were when
\* that call started; the only state the call has changed is the guesses and
\* backtracks counters (the board, cells_assigned and step_history are as
\* before each of its steps).
C20_SearchFalseRestores ==
    [][/\ SearchReturnsFalse =>
            /\ mx' = EntryOfReturning.m
            /\ sv'.solution = EntryOfReturning.solution
       /\ (sv.kind = DLX /\ sv.pc \in {"call", "loop", "ret"} /\ sv'.pc # "done") =>
            /\ UNCHANGED <<ub, wb, ob>>
            /\ sv'.cells_assigned = sv.cells_assigned
            /\ sv'.step_history = sv.step_history]_vars

(***************************************************************************)
(* Claims about the links of the matrix                                    *)
(***************************************************************************)
\* the walk "node = self.header.right; while node != self.header" of at most
\* k steps from node n: the columns it meets and the node it is at in the end
RECURSIVE RingColumns(_, _, _)
RingColumns(m, n, k) ==
    IF k = 0 \/ n = HEADER THEN [at |-> n, seen |-> {}]
    ELSE IF k = 1 THEN [at |-> m.right[n], seen |-> {n}]
    ELSE LET a == RingColumns(m, n, k \div 2)
         IN  IF a.at = HEADER THEN a
             ELSE LET b == RingColumns(m, a.at, k - (k \div 2))
                  IN  [at |-> b.at, seen |-> a.seen \cup b.seen]

\* the nodes met by "cur = column.node.down; while cur != column.node: cur =
\* cur.down" from node n on, in at most fuel steps
RECURSIVE VerticalRing(_, _, _, _)
VerticalRing(m, c, n, fuel) ==
    IF n = c \/ fuel = 0 THEN {}
    ELSE {n} \cup VerticalRing(m, c, m.down[n], fuel - 1)

\* n.up.down = n and n.down.up = n
VerticalAgree(m, n) == m.down[m.up[n]] = n /\ m.up[m.down[n]] = n

\* n.left.right = n and n.right.left = n
HorizontalAgree(m, n) == Right(m, Left(m, n)) = n /\ Left(m, Right(m, n)) = n

\* the walk of the header ring comes back to the header; the header, every
\* column on it, every node of their vertical rings and every node of the
\* rows of these nodes has neighbours that point back to it; every column on
\* the header ring has as many nodes on its vertical ring as its size says.
\* (The left and right of the nodes of a row are those of _prepare_matrix,
\* which agree: see Left and Right.)
Consistent(m) ==
    \A ring \in {RingColumns(m, m.right[HEADER], NCOLS)} :
        /\ ring.at = HEADER
        /\ HorizontalAgree(m, HEADER) /\ VerticalAgree(m, HEADER)
        /\ \A c \in ring.seen :
           \A rows \in {VerticalRing(m, c, m.down[c], GRID_SIZE + 1)} :
            /\ HorizontalAgree(m, c) /\ VerticalAgree(m, c)
            /\ Cardinality(rows) <= GRID_SIZE
            /\ m.size[c] = Cardinality(rows)
            /\ \A n \in rows :
               \A n2 \in {Right(m, n)} :
               \A n3 \in {Right(m, n2)} :
               \A n4 \in {Right(m, n3)} :
                /\ VerticalAgree(m, n) /\ VerticalAgree(m, n2)
                /\ VerticalAgree(m, n3) /\ VerticalAgree(m, n4)
                /\ Right(m, n4) = n

\* the matrix is consistent after each of the four _cover calls solve()
\* makes for the placement of row_node
CoverFourConsistent(m, row_node) ==
    \A m1 \in {cover(m, ColumnOf[row_node])} :
    \A n2 \in {Right(m1, row_node)} :
    \A m2 \in {cover(m1, ColumnOf[n2])} :
    \A n3 \in {Right(m2, n2)} :
    \A m3 \in {cover(m2, ColumnOf[n3])} :
    \A m4 \in {cover(m3, ColumnOf[Right(m3, n3)])} :
        Consistent(m1) /\ Consistent(m2) /\ Consistent(m3) /\ Consistent(m4)

\* the matrix is consistent after every _cover call of the loops over r and
\* c of solve() on grid g, which start from matrix m
PreCoverConsistent(g, m) ==
    \A k \in 0 .. NCELLS - 1 :
        (g[RowOf(k)][ColOfCell(k)] # 0 /\ g[RowOf(k)][ColOfCell(k)] \in Digits) =>
            \A s0 \in {PreCover(g, [m |-> m, solution |-> << >>], 0, k - 1)} :
                ~s0.m.hang =>
                    CoverFourConsistent(s0.m, placement_rows(RowOf(k), ColOfCell(k),
                                                             g[RowOf(k)][ColOfCell(k)]))

\* DancingLinksSolver on boards whose givens do not conflict: row 0 of the
\* solved grid and nothing else; the same with (0,0) blank and its digit at
\* (1,0), so that the empty cell (0,0) has no candidate; the solved grid with
\* rows 1, 2 and columns 0, 7, 8 blank, which the search solves after it has
\* backtracked; and the empty grid
LinkPuzzles ==
    {Puzzle({<<r, c>> : r \in 1 .. GRID_SIZE - 1, c \in Idx}, {}),
     Puzzle({<<r, c>> : r \in 1 .. GRID_SIZE - 1, c \in Idx} \cup {<<0, 0>>},
            {<<1, 0, BaseGrid[0][0]>>}),
     Puzzle({<<r, c>> \in Idx \X Idx : r \in {1, 2} \/ c \in {0, 7, 8}}, {}),
     EmptyGrid}

InitLinks ==
    /\ \E g \in LinkPuzzles : ub = BoardInit(g)
    /\ cb = NoBoard
    /\ wb = NoBoard
    /\ ob = NoBoard
    /\ sv = NoSolver
    /\ mx = NoMatrix
    /\ last = NoCall

NextLinks ==
    \/ Construct(DLX)
    \/ SolveCall
    \/ DLX_Pre
    \/ DLX_Call
    \/ DLX_Loop
    \/ DLX_Backtrack
    \/ SolveReturn
    \/ Reset

SpecLinks == InitLinks /\ [][NextLinks]_vars

\* C21: for a board whose givens do not conflict, at every entry to and
\* return from _search and between the cover calls made for the given
\* cells, every node reachable from the root header has neighbours that link
\* back to it, and every column linked in the header ring has size equal to
\* the number of nodes in its vertical ring.
C21_LinksConsistent ==
    (sv.kind = DLX /\ is_valid(ub.board)) =>
        /\ sv.pc \in {"call", "ret"} => Consistent(mx)
        /\ sv.pc = "pre" =>
             PreCoverConsistent(ub.board, mx)

\* C22: when DancingLinksSolver.solve() returns false, every column covered
\* during the call, including the four columns covered for each given cell,
\* has been uncovered again, so the matrix is back in its freshly built
\* state.
C22_FalseLeavesFreshMatrix ==
    (sv.kind = DLX /\ sv.pc = "done" /\ sv.result = "false") => FreshMatrix(mx)

(***************************************************************************)
(* Claims about BacktrackingMRVSolver._solve_recursive                     *)
(***************************************************************************)
\* this step is a return of False from a call of _solve_recursive: on entry
\* (no cell, or a cell without candidates) or at the end of its loop
MrvReturnsFalse ==
    /\ sv.kind = MRV /\ sv.pc \in {"call", "loop"}
    /\ sv'.pc = "ret" /\ ~sv'.retval

\* the grid and the candidate sets when the call that is returning started
MrvEntryOfReturning == IF sv.pc = "call" THEN BoardEntry ELSE Top(sv.stack).entry

\* this step is the backtrack after a failed trial of a value
MrvTrialFailed == sv.kind = MRV /\ sv.pc = "ret" /\ sv'.pc = "loop"

\* C23: whenever BacktrackingMRVSolver._solve_recursive returns false, the
\* board's grid and the candidate set of every cell are exactly as they were
\* when that call started; after each failed trial of a value the tried cell
\* is 0 again and all candidate sets are restored before the next value is
\* tried.
C23_MrvFalseRestores ==
    [][/\ MrvReturnsFalse =>
            /\ CurBoard'.board = MrvEntryOfReturning.board
            /\ CurBoard'.candidates = MrvEntryOfReturning.candidates
       /\ MrvTrialFailed =>
            /\ CurBoard'.board[Top(sv.stack).row][Top(sv.stack).col] = 0
            /\ CurBoard'.board = Top(sv.stack).entry.board
            /\ CurBoard'.candidates = Top(sv.stack).entry.candidates]_vars

\* the call of _solve_recursive made by the first solve() has returned False
\* after trials that failed, and the board is the one it started from
C23_Witness ==
    /\ sv.kind = MRV /\ sv.pc = "ret" /\ ~sv.retval /\ sv.stack = << >>
    /\ sv.calls = 1 /\ sv.resets = 0
    /\ sv.backtracks > 1
    /\ CurBoard.board = ob.board
    /\ CurBoard.candidates = ob.candidates

\* the number of candidates board b holds for the cell of row-major index k
NumCandidates(b, k) == Cardinality(b.candidates[RowOf(k)][ColOfCell(k)])

\* the empty cells of b that have no more candidates than any empty cell
FewestCandidates(b) ==
    {k \in get_empty_cells(b.board) :
        \A j \in get_empty_cells(b.board) : NumCandidates(b, k) <= NumCandidates(b, j)}

\* a call of _solve_recursive on a board that is not solved and has an empty
\* cell makes its step
MrvPicks ==
    /\ sv.kind = MRV /\ sv.pc = "call"
    /\ ~is_solved(CurBoard.board)
    /\ get_empty_cells(CurBoard.board) # {}

\* C24: each step of BacktrackingMRVSolver picks, among the empty cells, one
\* with the fewest candidates, and among those the first in row-major order;
\* if that cell has no candidate, the step returns false without writing any
\* cell and without changing guesses, backtracks or the step history.
C24_MrvPicksFewest ==
    [][MrvPicks =>
        IF NumCandidates(CurBoard, Min(FewestCandidates(CurBoard))) = 0
        THEN /\ sv'.pc = "ret" /\ ~sv'.retval
             /\ CurBoard'.board = CurBoard.board
             /\ sv'.guesses = sv.guesses
             /\ sv'.backtracks = sv.backtracks
             /\ sv'.step_history = sv.step_history
        ELSE /\ sv'.pc = "loop"
             /\ Top(sv'.stack).row = RowOf(Min(FewestCandidates(CurBoard)))
             /\ Top(sv'.stack).col = ColOfCell(Min(FewestCandidates(CurBoard)))]_vars

\* a call made for a trial has returned False at once: the cell with the
\* fewest candidates has none, and it is not the first empty cell
C24_Witness ==
    /\ sv.kind = MRV /\ sv.pc = "ret" /\ ~sv.retval /\ sv.stack # << >>
    /\ ~is_solved(CurBoard.board)
    /\ get_empty_cells(CurBoard.board) # {}
    /\ NumCandidates(CurBoard, Min(FewestCandidates(CurBoard))) = 0
    /\ Min(FewestCandidates(CurBoard)) # Min(get_empty_cells(CurBoard.board))

(***************************************************************************)
(* NakedSinglesSolver on its own                                           *)
(*                                                                         *)
(* The calls on a NakedSinglesSolver and the steps of its solve().  A      *)
(* solve() that has been called keeps running: the steps of solve() are    *)
(* weakly fair.                                                            *)
(***************************************************************************)
\* the input puzzles and a grid without conflicts in which two cells of a row
\* have the same single candidate: row 0 of the solved grid with (0,0) and
\* (0,1) blank, and the digit of (0,1) in column 0 and in column 1 further
\* down, so that both cells have the digit of (0,0) as their only candidate
NakedPuzzles ==
    Puzzles \cup
    {Puzzle({<<r, c>> : r \in 1 .. GRID_SIZE - 1, c \in Idx} \cup {<<0, 0>>, <<0, 1>>},
            {<<3, 0, BaseGrid[0][1]>>, <<6, 1, BaseGrid[0][1]>>})}

InitNaked ==
    /\ \E g \in NakedPuzzles : ub = BoardInit(g)
    /\ cb = NoBoard
    /\ wb = NoBoard
    /\ ob = NoBoard
    /\ sv = NoSolver
    /\ mx = NoMatrix
    /\ last = NoCall

NextNaked ==
    \/ Construct(NS)
    \/ SolveCall
    \/ NS_Init
    \/ NS_Loop
    \/ NS_Exit
    \/ Reset

SpecNaked ==
    /\ InitNaked /\ [][NextNaked]_vars
    /\ WF_vars(NS_Init) /\ WF_vars(NS_Loop) /\ WF_vars(NS_Exit)

\* solve() has stopped with the grid in place and not solved, and every empty
\* cell has a candidate
NakedStuck ==
    /\ sv.kind = NS /\ sv.pc = "done"
    /\ CurBoard.board # None
    /\ ~is_solved(CurBoard.board)
    /\ \A k \in get_empty_cells(CurBoard.board) : NumCandidates(CurBoard, k) >= 1

\* C25: NakedSinglesSolver.solve() terminates on every board (it returns or
\* raises), and when it stops on a board that is not solved and in which
\* every empty cell still has at least one candidate, no empty cell has
\* exactly one candidate (the propagation reached its fixpoint).
C25_NakedTerminatesAtFixpoint ==
    /\ (sv.kind = NS /\ sv.pc \in {"call", "loop"}) ~> (sv.pc = "done")
    /\ [](NakedStuck =>
            \A k \in get_empty_cells(CurBoard.board) : NumCandidates(CurBoard, k) # 1)

\* solve() has returned False on a puzzle in which four empty cells have two
\* candidates each after the scan for naked singles
C25_Witness ==
    /\ NakedStuck
    /\ sv.result = "false" /\ sv.calls = 1
    /\ Cardinality(get_empty_cells(CurBoard.board)) = NumHoleCells
    /\ \A k \in get_empty_cells(CurBoard.board) : NumCandidates(CurBoard, k) = 2

\* C26: starting from any board without conflicts (solvable or not), every
\* value NakedSinglesSolver writes is, at the moment it is written, absent
\* from the cell's row, column and 3x3 box, so the solver's grid never
\* contains a duplicate in a row, column or box.  (A value written while it
\* is present in the row, column or box of its cell leaves a duplicate, and
\* no step of the solver removes a value.)
C26_NakedWritesNoDuplicate ==
    (sv.kind = NS /\ is_valid(ob.board) /\ CurBoard.board # None) =>
        is_valid(CurBoard.board)

(***************************************************************************)
(* Claims about a second solve() and about the result of a solve()         *)
(***************************************************************************)
\* a solve() has ended that was called, without a reset() in between, after
\* a solve() that returned True
SolvedThenSolvedAgain ==
    /\ sv.kind \in Kinds /\ sv.pc = "done"
    /\ sv.calls >= 2 /\ sv.before.outcome.result = "true"

\* C27: for every solver, if solve() returned true, calling solve() again
\* without reset() returns true again and leaves the board grid,
\* cells_assigned, guesses, backtracks and the step history unchanged.
C27_SolveAgainSame ==
    SolvedThenSolvedAgain =>
        /\ sv.result = "true"
        /\ CurBoard.board = sv.before.outcome.board
        /\ sv.cells_assigned = sv.before.outcome.cells_assigned
        /\ sv.guesses = sv.before.outcome.guesses
        /\ sv.backtracks = sv.before.outcome.backtracks
        /\ sv.step_history = sv.before.step_history

\* a solve() of one of the three searching solvers has returned False
SearchSolveFalse ==
    /\ sv.kind \in {BT, MRV, DLX}
    /\ sv.pc = "done" /\ sv.result = "false"

\* C28: when solve() returns false on a BacktrackingSolver,
\* BacktrackingMRVSolver or DancingLinksSolver, the solver's board grid is
\* identical to the puzzle grid it was constructed with: every trial
\* assignment has been undone.
C28_FalseLeavesPuzzle ==
    SearchSolveFalse => CurBoard.board = ob.board

\* the first solve() of a freshly constructed or reset searching solver,
\* running or ended, on a puzzle whose givens do not conflict
FreshSearchRun ==
    /\ sv.kind \in {BT, MRV, DLX}
    /\ sv.calls = 1 /\ sv.pc # "idle"
    /\ is_valid(ob.board)

\* C29: when solve() returns true on a freshly constructed or reset
\* BacktrackingSolver, BacktrackingMRVSolver or DancingLinksSolver whose
\* puzzle has no conflicting givens, guesses minus backtracks equals the
\* number of cells that were empty in the puzzle, and backtracks <= guesses
\* holds at every point of the run.
C29_GuessesMinusBacktracks ==
    FreshSearchRun =>
        /\ sv.backtracks <= sv.guesses
        /\ (sv.pc = "done" /\ sv.result = "true") =>
               sv.guesses - sv.backtracks
                   = Cardinality(get_empty_cells(ob.board))

C29_Witness ==
    /\ FreshSearchRun
    /\ sv.pc = "done" /\ sv.result = "true"
    /\ sv.backtracks > 0
    /\ sv.guesses - sv.backtracks = Cardinality(get_empty_cells(ob.board))

\* C30: when SudokuBoard.from_string raises on a malformed string (wrong
\* length or a non-digit character at any position), the board's grid,
\* initial snapshot and candidate sets are exactly as they were before the
\* call.
C30_FromStringRaiseKeepsBoard ==
    (last.op = "c.from_string(s)" /\ ~last.ret) =>
        /\ cb.board = last.pre.board
        /\ cb.initial_board = last.pre.initial_board
        /\ cb.candidates = last.pre.candidates

====
